---- MODULE Spec2Model ----
(***************************************************************************)
(* A model of core/lib/src/req_res_pair.rs: the pinned ReqResPair that     *)
(* keeps a Response together with the Request it borrows from, the         *)
(* PayloadKind body handed to hyper, and the order in which the pair's     *)
(* fields are released.                                                    *)
(***************************************************************************)
EXTENDS Integers, Sequences, FiniteSets, TLC

(* ------------------------------ bounds -------------------------------- *)

\* longest body source, in bytes
MaxBody == 2
\* most polls the transport makes of one PayloadKind
MaxPolls == 4
\* most polls of one PayloadKind that find the body source not ready
MaxPending == 1
\* most Requests the construction function builds for one pair
MaxRequests == 2
\* most body() and tagged_body() calls made on one Created
MaxBodyCalls == 2
\* most characters in the name of an identifier
MaxNameLen == 2

(* ------------------------------ values -------------------------------- *)

\* Option<T>: None is the empty sequence, Some(v) the one-element sequence
None == <<>>
Some(v) == <<v>>
IsSome(o) == Len(o) > 0
IsNone(o) == Len(o) = 0

SeqsUpTo(S, n) == UNION {[1..k -> S] : k \in 0..n}

\* the containers of the model; Solo is the one a single request task drives
PairIds == {"p1", "p2"}
Solo == {"p1"}

\* a u64 as two 32-bit halves (the value is hi * 2^32 + lo)
U64(hi, lo) == [hi |-> hi, lo |-> lo]

\* pointer widths (bits of usize) of the builds
UsizeBitsPool == {32, 64}

\* what the bytes of a body source are drawn from
BodyBytes == {"a", "b"}

\* an AsyncRead body source: the bytes it holds, and failAt = k when its
\* k+1-th byte cannot be read (an io::Error), -1 when it reads to its end
ReaderPool ==
    {r \in [src : SeqsUpTo(BodyBytes, MaxBody), failAt : -1..MaxBody] :
        r.failAt <= Len(r.src)}

\* declared sizes of Body::Sized
SizePool == {0, 13, 120}
\* declared chunk sizes of Body::Chunked
ChunkPool == {U64(0, 0), U64(0, 1), U64(0, 2), U64(1, 0)}

\* Body::Sized(body, size) and Body::Chunked(body, chunk_size)
BodyPool ==
    {[kind |-> "Sized", reader |-> r, size |-> s, chunk_size |-> U64(0, 0)] :
        r \in ReaderPool, s \in SizePool}
    \cup
    {[kind |-> "Chunked", reader |-> r, size |-> 0, chunk_size |-> c] :
        r \in ReaderPool, c \in ChunkPool}

\* headers a handler can put into its Response (names as hyper sees them)
HCustom == [name |-> "x-custom", value |-> <<"o", "k">>]
HLength == [name |-> "content-length", value |-> <<"5">>]
HBadName == [name |-> "bad name", value |-> <<"x">>]
HeaderSeqs == {<<>>, <<HCustom, HLength>>, <<HBadName>>}

\* status codes a handler can set (Status.code is any u16)
StatusPool == {200, 99}

\* the Responses a handler can produce
ResponsePool ==
    [status : StatusPool, headers : HeaderSeqs,
     body : {None} \cup {Some(b) : b \in BodyPool}]

\* the errors the request-construction function f can return
ErrPool == {"e1", "e2"}

(* ------------------------------- state -------------------------------- *)

VARIABLES
    strong,      \* strong count of the Arc<Rocket>
    usizeBits,   \* width of usize in this build
    pair,        \* pair[p]: the ReqResPair p, its fields and who owns it
    bridge,      \* bridge[p]: the PayloadKind made from p, as hyper holds it
    hyp,         \* hyp[p]: Option of the hyper::Response parts made from p
    out,         \* out[p]: what the polls of bridge[p] returned, in order
    released,    \* released[p]: the fields of p released so far, in order
    last,        \* last[p]: the last call on p, its outcome and pre-state
    created,     \* a status::Created responder, its calls and its response
    idents       \* two codegen Idents and what comparing them returned

vars ==
    <<strong, usizeBits, pair, bridge, hyp, out, released, last, created,
      idents>>

\* a ReqResPair that was not allocated yet
NoPair ==
    [owner |-> "unbound", borrowed |-> FALSE, rocket |-> None,
     request |-> None, response |-> None, stream |-> None]

NoCall ==
    [op |-> "none", outcome |-> "none", fcalled |-> FALSE, pre |-> NoPair,
     atDrop |-> None, fres |-> None,
     fret |-> [ok |-> TRUE, req |-> 0, err |-> "none"],
     ret |-> [ok |-> TRUE, err |-> "none"]]

Call(op, outcome, fcalled, pre) ==
    [NoCall EXCEPT !.op = op, !.outcome = outcome, !.fcalled = fcalled,
                   !.pre = pre]

\* Created<R>(location, responder, hash), with the calls made on it
NoCreated ==
    [phase |-> "none", loc |-> <<>>, responder |-> None, hash |-> None,
     given |-> <<>>, tagged |-> None, ncalls |-> 0,
     result |-> [ok |-> TRUE, err |-> 0, response |-> None]]

\* no Ident made yet, nothing compared
NoIdents ==
    [made |-> FALSE,
     a |-> [raw |-> FALSE, sym |-> <<>>], b |-> [raw |-> FALSE, sym |-> <<>>],
     eq |-> None, hashes |-> None, partial_cmp |-> None, cmp |-> None]

Init ==
    /\ idents = NoIdents
    /\ created = NoCreated
    /\ strong = 1
    /\ usizeBits \in UsizeBitsPool
    /\ pair = [p \in PairIds |-> NoPair]
    /\ bridge = [p \in PairIds |-> "none"]
    /\ hyp = [p \in PairIds |-> None]
    /\ out = [p \in PairIds |-> <<>>]
    /\ released = [p \in PairIds |-> <<>>]
    /\ last = [p \in PairIds |-> NoCall]

(* ------------------------------- drop --------------------------------- *)

\* the order of the fields' declaration, which is the order they are
\* released in when no Drop is implemented
DropOrder_Declared == <<"rocket", "request", "response", "stream">>

\* Drop for ReqResPair clears stream, response, request; the drop glue then
\* releases the remaining field, the Arc<Rocket>
DropOrder == <<"stream", "response", "request", "rocket">>

HeldField(pr, f) == IsSome(pr[f])

\* every field released, whether the pair holds a value in it or not
ReleasedBy_All(pr) == DropOrder

\* the fields the drop of pr releases, in the order it releases them
ReleasedBy(pr) == SelectSeq(DropOrder, LAMBDA f : HeldField(pr, f))

Dropped(pr) ==
    [pr EXCEPT !.owner = "dropped", !.borrowed = FALSE, !.stream = None,
               !.response = None, !.request = None, !.rocket = None]

\* the drop of a pair releasing the Rocket itself, not one handle to it
DropEffects_ReleasesContext(p, pr) ==
    /\ pair' = [pair EXCEPT ![p] = Dropped(pr)]
    /\ released' = [released EXCEPT ![p] = @ \o ReleasedBy(pr)]
    /\ strong' = 0

\* the pair p, in state pr, is dropped
DropEffects(p, pr) ==
    /\ pair' = [pair EXCEPT ![p] = Dropped(pr)]
    /\ released' = [released EXCEPT ![p] = @ \o ReleasedBy(pr)]
    /\ strong' = strong - 1

(* ---------------------------- ReqResPair ------------------------------ *)

\* ReqResPair::new(rocket), given a clone of the server's Arc<Rocket>
new(p) ==
    /\ pair[p].owner = "unbound"
    /\ strong >= 1
    /\ strong' = strong + 1
    /\ pair' = [pair EXCEPT ![p] =
                    [NoPair EXCEPT !.owner = "caller", !.rocket = Some("rocket")]]
    /\ last' = [last EXCEPT ![p] = Call("new", "ok", FALSE, pair[p])]
    /\ UNCHANGED <<usizeBits, bridge, hyp, out, released>>
    /\ UNCHANGED <<created, idents>>

\* the Requests f has built for p so far; each call of f builds a new one,
\* named by its ordinal
Constructed(p) ==
    Len(SelectSeq(released[p], LAMBDA f : f = "request"))
        + (IF IsSome(pair[p].request) THEN 1 ELSE 0)

\* the results f can return on p: Ok(req), req newly built, or Err(e)
FReqPool(p) ==
    {[ok |-> TRUE, req |-> Constructed(p) + 1, err |-> "none"]}
    \cup {[ok |-> FALSE, req |-> 0, err |-> e] : e \in ErrPool}

\* try_set_request without its assertion
TrySetRequestAllowed_Unchecked(pr) == TRUE

\* the assertion that opens try_set_request
TrySetRequestAllowed(pr) == IsNone(pr.response)

\* the error of f dropped, Ok(()) returned in its place
TrySetRequestReturn_Swallowed(fr) == [ok |-> TRUE, err |-> "none"]

\* f(rocket).map(..): what try_set_request returns when f returned fr
TrySetRequestReturn(fr) ==
    [ok |-> fr.ok, err |-> IF fr.ok THEN "none" ELSE fr.err]

\* ReqResPair::try_set_request(f), f returning fr
try_set_request(p, fr) ==
    LET pr == pair[p] IN
    /\ pr.owner = "caller"
    /\ ~pr.borrowed
    /\ fr.ok => Constructed(p) < MaxRequests
    /\ IF ~TrySetRequestAllowed(pr)
       THEN /\ last' = [last EXCEPT ![p] =
                            Call("try_set_request", "panic", FALSE, pr)]
            /\ UNCHANGED <<pair, released>>
       ELSE IF ~fr.ok
       THEN /\ last' = [last EXCEPT ![p] =
                            [Call("try_set_request", "err", TRUE, pr)
                                EXCEPT !.fret = fr,
                                       !.ret = TrySetRequestReturn(fr)]]
            /\ UNCHANGED <<pair, released>>
       ELSE /\ pair' = [pair EXCEPT ![p].request = Some(fr.req)]
            \* the assignment drops the Request stored before, if any
            /\ released' = [released EXCEPT ![p] =
                                IF IsSome(pr.request)
                                THEN Append(@, "request") ELSE @]
            /\ last' = [last EXCEPT ![p] =
                            [Call("try_set_request", "ok", TRUE, pr)
                                EXCEPT !.fret = fr]]
    /\ UNCHANGED <<strong, usizeBits, bridge, hyp, out>>
    /\ UNCHANGED <<created, idents>>

\* set_response without its first assertion
SetResponseAllowed_NoRequestCheck(pr) == IsNone(pr.response)

\* set_response without its second assertion
SetResponseAllowed_NoTwiceCheck(pr) == IsSome(pr.request)

\* the two assertions that open set_response
SetResponseAllowed(pr) == IsSome(pr.request) /\ IsNone(pr.response)

\* ReqResPair::set_response(f), up to the await of the handler f
set_response(p) ==
    LET pr == pair[p] IN
    /\ pr.owner = "caller"
    /\ ~pr.borrowed
    /\ IF ~SetResponseAllowed(pr)
       THEN /\ last' = [last EXCEPT ![p] =
                            Call("set_response", "panic", FALSE, pr)]
            /\ UNCHANGED pair
       ELSE /\ pair' = [pair EXCEPT ![p].borrowed = TRUE]
            /\ last' = [last EXCEPT ![p] =
                            Call("set_response", "pending", TRUE, pr)]
    /\ UNCHANGED <<strong, usizeBits, bridge, hyp, out, released>>
    /\ UNCHANGED <<created, idents>>

\* what set_response stores when the handler produced res
StoredResponse(res) == Some(res)

\* set_response, from the handler's completion with res to its return
set_response_resume(p, res) ==
    LET pr == pair[p] IN
    /\ pr.owner = "caller"
    /\ pr.borrowed
    /\ pair' = [pair EXCEPT ![p].response = StoredResponse(res),
                            ![p].borrowed = FALSE]
    /\ last' = [last EXCEPT ![p] =
                    [Call("set_response", "ok", TRUE, pr)
                        EXCEPT !.fres = Some(res)]]
    /\ UNCHANGED <<strong, usizeBits, bridge, hyp, out, released>>
    /\ UNCHANGED <<created, idents>>

\* the set_response future is dropped while the handler is suspended
set_response_cancel(p) ==
    LET pr == pair[p] IN
    /\ pr.owner = "caller"
    /\ pr.borrowed
    /\ pair' = [pair EXCEPT ![p].borrowed = FALSE]
    /\ last' = [last EXCEPT ![p] = Call("set_response", "cancelled", TRUE, pr)]
    /\ UNCHANGED <<strong, usizeBits, bridge, hyp, out, released>>
    /\ UNCHANGED <<created, idents>>

\* the owner of the Pin<Box<ReqResPair>> drops it
drop(p) ==
    LET pr == pair[p] IN
    /\ pr.owner = "caller"
    /\ ~pr.borrowed
    /\ DropEffects(p, pr)
    /\ last' = [last EXCEPT ![p] =
                    [Call("drop", "ok", FALSE, pr) EXCEPT !.atDrop = Some(pr)]]
    /\ UNCHANGED <<usizeBits, bridge, hyp, out>>
    /\ UNCHANGED <<created, idents>>

(* ----------------------- into_hyper_response ------------------------- *)

\* http::StatusCode::from_u16, as Builder::status applies it to the code
ValidStatus(code) == code >= 100 /\ code < 1000

\* the header names http::HeaderName rejects
InvalidHeaderNames == {"bad name"}

\* hyp_res.body(payload) is Ok when neither the status nor a header made
\* the builder fail
BuilderOk(status, headers) ==
    /\ ValidStatus(status)
    /\ \A i \in 1..Len(headers) : headers[i].name \notin InvalidHeaderNames

DigitChars == <<"0", "1", "2", "3", "4", "5", "6", "7", "8", "9">>

\* u64::to_string: the decimal digits of n, most significant first
RECURSIVE to_string(_)
to_string(n) ==
    IF n < 10 THEN <<DigitChars[n + 1]>>
    ELSE Append(to_string(n \div 10), DigitChars[(n % 10) + 1])

\* the header hyp_res.header(header::CONTENT_LENGTH, value) adds
ContentLength(value) == [name |-> "content-length", value |-> value]

\* the loop that copies the Response's headers into the builder
CopiedHeaders(res) ==
    [i \in 1..Len(res.headers) |->
        [name |-> res.headers[i].name, value |-> res.headers[i].value]]

\* chunk size given to the stream of a Body::Sized
SizedChunkSize == 4096

\* u64 -> usize, TryInto: None when the value does not fit
TryIntoUsize(v, bits) == IF bits >= 64 \/ v.hi = 0 THEN Some(v) ELSE None

\* the default chunk size taken for both kinds of body
StreamChunkSize_Default(body, bits) == Some(U64(0, SizedChunkSize))

\* the chunk size the match on the body yields; None is the panic of
\* expect("u64 -> usize overflow")
StreamChunkSize(body, bits) ==
    IF body.kind = "Chunked"
    THEN TryIntoUsize(body.chunk_size, bits)
    ELSE Some(U64(0, SizedChunkSize))

\* Content-Length taken from the chunk size instead of the body's size
BodyHeaders_ChunkSize(res, body) ==
    IF body.kind = "Sized"
    THEN Append(CopiedHeaders(res), ContentLength(to_string(SizedChunkSize)))
    ELSE CopiedHeaders(res)

\* the headers of the hyper response for a Response with body `body`
BodyHeaders(res, body) ==
    IF body.kind = "Sized"
    THEN Append(CopiedHeaders(res), ContentLength(to_string(body.size)))
    ELSE CopiedHeaders(res)

\* a Response without a body given no Content-Length of its own
EmptyHeaders_NoLength(res) == CopiedHeaders(res)

\* the headers of the hyper response for a Response without a body
EmptyHeaders(res) == Append(CopiedHeaders(res), ContentLength(<<"0">>))

\* ext::IntoBytesStream, as into_bytes_stream(chunk_size) makes it
into_bytes_stream(reader, chunk_size) ==
    [src |-> reader.src, failAt |-> reader.failAt, pos |-> 0,
     buf_size |-> chunk_size, state |-> "open"]

\* the stream built but not stored into the pair
StoredStream_Unset(body, chunk_size) == None

\* the stream into_hyper_response stores for `body`
StoredStream(body, chunk_size) ==
    Some(into_bytes_stream(body.reader, chunk_size))

\* the payload made from a copy, the pair left with its caller
MovedIntoPayload_Kept(pr) == pr

\* PayloadKind::ReqRes(self): the pair moves into the payload
MovedIntoPayload(pr) == [pr EXCEPT !.owner = "bridge"]

\* into_hyper_response on a pair in state pr: its outcome, the pair as the
\* call leaves it (self), whether self was dropped before the call returned
\* or unwound, the hyper response parts and the payload it returned
IntoHyperResponse(pr, bits) ==
    IF IsNone(pr.response)
    THEN [outcome |-> "panic", self |-> pr, dropped |-> TRUE,
          hyp |-> None, payload |-> "none"]
    ELSE
    LET res == pr.response[1]
        taken == [pr EXCEPT !.response = Some([res EXCEPT !.body = None])]
    IN
    IF IsNone(res.body)
    THEN IF BuilderOk(res.status, EmptyHeaders(res))
         THEN [outcome |-> "ok", self |-> taken, dropped |-> TRUE,
               hyp |-> Some([status |-> res.status,
                             headers |-> EmptyHeaders(res)]),
               payload |-> "Empty"]
         ELSE [outcome |-> "err", self |-> taken, dropped |-> TRUE,
               hyp |-> None, payload |-> "none"]
    ELSE
    LET body == res.body[1]
        cs == StreamChunkSize(body, bits)
    IN
    IF IsNone(cs)
    THEN [outcome |-> "panic", self |-> taken, dropped |-> TRUE,
          hyp |-> None, payload |-> "none"]
    ELSE
    LET streaming == [taken EXCEPT !.stream = StoredStream(body, cs[1])]
    IN
    IF BuilderOk(res.status, BodyHeaders(res, body))
    THEN [outcome |-> "ok", self |-> MovedIntoPayload(streaming),
          dropped |-> FALSE,
          hyp |-> Some([status |-> res.status,
                        headers |-> BodyHeaders(res, body)]),
          payload |-> "ReqRes"]
    ELSE [outcome |-> "err", self |-> streaming, dropped |-> TRUE,
          hyp |-> None, payload |-> "none"]

\* ReqResPair::into_hyper_response(self), self moved into the call
into_hyper_response(p) ==
    LET pr == pair[p]
        r == IntoHyperResponse(pr, usizeBits)
    IN
    /\ pr.owner = "caller"
    /\ ~pr.borrowed
    /\ IF r.dropped
       THEN DropEffects(p, r.self)
       ELSE /\ pair' = [pair EXCEPT ![p] = r.self]
            /\ UNCHANGED <<released, strong>>
    /\ hyp' = [hyp EXCEPT ![p] = r.hyp]
    /\ bridge' = [bridge EXCEPT ![p] = r.payload]
    /\ last' = [last EXCEPT ![p] =
                    [Call("into_hyper_response", r.outcome, FALSE, pr)
                        EXCEPT !.atDrop =
                            IF r.dropped THEN Some(r.self) ELSE None]]
    /\ UNCHANGED <<usizeBits, out>>
    /\ UNCHANGED <<created, idents>>

(* ---------------------------- PayloadKind ----------------------------- *)

\* what a poll returns: Ready(Some(Ok(bytes))), Ready(Some(Err(e))),
\* Ready(None) and Pending
Data(bytes) == [kind |-> "data", bytes |-> bytes]
ErrItem == [kind |-> "err", bytes |-> <<>>]
EndItem == [kind |-> "end", bytes |-> <<>>]
PendingItem == [kind |-> "pending", bytes |-> <<>>]

\* bytes one read into a buffer of buf_size takes out of `avail`
ChunkLen(buf_size, avail) ==
    IF buf_size.hi > 0 \/ buf_size.lo >= avail THEN avail ELSE buf_size.lo

\* IntoBytesStream::poll_next on the stream s, the source having bytes
\* ready or not
poll_next(s, ready) ==
    LET limit == IF s.failAt >= 0 THEN s.failAt ELSE Len(s.src)
        avail == limit - s.pos
        n == ChunkLen(s.buf_size, avail)
    IN
    IF s.state # "open" THEN [stream |-> s, item |-> EndItem]
    ELSE IF avail = 0
    THEN IF s.failAt >= 0
         THEN [stream |-> [s EXCEPT !.state = "failed"], item |-> ErrItem]
         ELSE [stream |-> [s EXCEPT !.state = "done"], item |-> EndItem]
    ELSE IF ~ready THEN [stream |-> s, item |-> PendingItem]
    ELSE IF n = 0
    THEN [stream |-> [s EXCEPT !.state = "done"], item |-> EndItem]
    ELSE [stream |-> [s EXCEPT !.pos = s.pos + n],
          item |-> Data(SubSeq(s.src, s.pos + 1, s.pos + n))]

\* the outcomes of unreachable_unchecked() when it is reached
UBItems ==
    {ErrItem, EndItem, PendingItem} \cup {Data(<<b>>) : b \in BodyBytes}

\* an error of the stream reported as the end of the body
MapErr_Swallowed(item) == IF item.kind = "err" THEN EndItem ELSE item

\* res.map_err(|e| e.into()) on what the stream returned
MapErr(item) == item

\* poll_data polling the stream a second time when the first poll returned
\* data, and returning what the second poll returned
poll_data_Twice(kind, st, ready, ub) ==
    IF kind = "Empty" THEN [stream |-> st, item |-> EndItem]
    ELSE IF IsNone(st) THEN [stream |-> st, item |-> ub]
    ELSE LET r == poll_next(st[1], ready)
             r2 == poll_next(r.stream, ready)
         IN IF r.item.kind = "data"
            THEN [stream |-> Some(r2.stream), item |-> MapErr(r2.item)]
            ELSE [stream |-> Some(r.stream), item |-> MapErr(r.item)]

\* poll_data returning Pending on the Empty payload
poll_data_EmptyPending(kind, st, ready, ub) ==
    IF kind = "Empty" THEN [stream |-> st, item |-> PendingItem]
    ELSE IF IsNone(st) THEN [stream |-> st, item |-> ub]
    ELSE LET r == poll_next(st[1], ready)
         IN [stream |-> Some(r.stream), item |-> MapErr(r.item)]

\* poll_data releasing the stream once it returned the end of the body
poll_data_FreeAtEnd(kind, st, ready, ub) ==
    IF kind = "Empty" THEN [stream |-> st, item |-> EndItem]
    ELSE IF IsNone(st) THEN [stream |-> st, item |-> ub]
    ELSE LET r == poll_next(st[1], ready)
         IN [stream |-> IF r.item.kind = "end" THEN None ELSE Some(r.stream),
             item |-> MapErr(r.item)]

\* poll_data polling a copy of the stream, the stored one left as it was
poll_data_OnCopy(kind, st, ready, ub) ==
    IF kind = "Empty" THEN [stream |-> st, item |-> EndItem]
    ELSE IF IsNone(st) THEN [stream |-> st, item |-> ub]
    ELSE LET r == poll_next(st[1], ready)
         IN [stream |-> st, item |-> MapErr(r.item)]

\* poll_data reporting a suspended stream as the end of the body
poll_data_PendingEnds(kind, st, ready, ub) ==
    IF kind = "Empty" THEN [stream |-> st, item |-> EndItem]
    ELSE IF IsNone(st) THEN [stream |-> st, item |-> ub]
    ELSE LET r == poll_next(st[1], ready)
         IN [stream |-> Some(r.stream),
             item |-> IF r.item.kind = "pending" THEN EndItem
                      ELSE MapErr(r.item)]

\* PayloadKind::poll_data on a payload of kind `kind` whose pair holds the
\* stream st; ub is what the build does where the behaviour is undefined
poll_data(kind, st, ready, ub) ==
    IF kind = "Empty" THEN [stream |-> st, item |-> EndItem]
    ELSE IF IsNone(st) THEN [stream |-> st, item |-> ub]
    ELSE LET r == poll_next(st[1], ready)
         IN [stream |-> Some(r.stream), item |-> MapErr(r.item)]

Pendings(p) == Len(SelectSeq(out[p], LAMBDA it : it.kind = "pending"))

\* hyper polls the body of the response made from p
poll(p, ready, ub) ==
    LET pr == pair[p]
        r == poll_data(bridge[p], pr.stream, ready, ub)
    IN
    /\ bridge[p] \in {"Empty", "ReqRes"}
    /\ Len(out[p]) < MaxPolls
    /\ r.item.kind = "pending" => Pendings(p) < MaxPending
    /\ pair' = [pair EXCEPT ![p].stream = r.stream]
    /\ out' = [out EXCEPT ![p] = Append(@, r.item)]
    /\ last' = [last EXCEPT ![p] = Call("poll_data", "ok", FALSE, pr)]
    /\ UNCHANGED <<strong, usizeBits, bridge, hyp, released>>
    /\ UNCHANGED <<created, idents>>

\* hyper drops the body of the response made from p
drop_payload(p) ==
    LET pr == pair[p] IN
    /\ bridge[p] \in {"Empty", "ReqRes"}
    /\ bridge' = [bridge EXCEPT ![p] = "dropped"]
    /\ IF bridge[p] = "ReqRes"
       THEN /\ DropEffects(p, pr)
            /\ last' = [last EXCEPT ![p] =
                            [Call("drop_payload", "ok", FALSE, pr)
                                EXCEPT !.atDrop = Some(pr)]]
       ELSE /\ last' = [last EXCEPT ![p] = Call("drop_payload", "ok", FALSE, pr)]
            /\ UNCHANGED <<pair, released, strong>>
    /\ UNCHANGED <<usizeBits, hyp, out>>
    /\ UNCHANGED <<created, idents>>

(* --------------------------- status::Created -------------------------- *)

\* the locations given to Created::new
LocationPool == {<<"/", "a">>, <<"/", "b">>}

\* headers a wrapped responder can set in its own response
WrappedHeaders ==
    {[name |-> "location", value |-> <<"/", "w">>],
     [name |-> "etag", value |-> <<"w">>]}

\* the wrapped responders R: h is what DefaultHasher makes of the
\* responder, and respond_to on it gives Err(status) or Ok of a response
\* with that status and those headers
ResponderPool ==
    [h : {7, 130}, ok : BOOLEAN, status : {200, 404},
     headers : SUBSET WrappedHeaders]

\* responder.respond_to(req).await, on the wrapped responder r
WrappedRespond(r) ==
    IF r.ok
    THEN [ok |-> TRUE, err |-> 0,
          response |-> Some([status |-> r.status, headers |-> r.headers,
                             body |-> Some("wrapped")])]
    ELSE [ok |-> FALSE, err |-> r.status, response |-> None]

\* Response::build()
ResponseBuild == [status |-> 200, headers |-> {}, body |-> None]

\* ResponseBuilder::merge(other)
Merge(resp, other) ==
    [status |-> other.status,
     headers |-> {h \in resp.headers :
                    \A o \in other.headers : o.name # h.name}
                 \cup other.headers,
     body |-> IF IsSome(other.body) THEN other.body ELSE resp.body]

\* ResponseBuilder::raw_header(name, value)
RawHeader(resp, name, value) ==
    [resp EXCEPT !.headers =
        {h \in @ : h.name # name} \cup {[name |-> name, value |-> value]}]

\* ResponseBuilder::status(status)
SetStatus(resp, status) == [resp EXCEPT !.status = status]

\* Status::Created
CreatedStatus == 201

\* Created::new(location)
Created_new(c, location) ==
    [c EXCEPT !.loc = location, !.responder = None, !.hash = None]

\* Created::body(responder)
Created_body(c, r) == [c EXCEPT !.responder = Some(r)]

\* the hash DefaultHasher finishes with after responder.hash(..)
HashOf(r) == r.h

\* tagged_body setting the responder and leaving the hash unset
Created_tagged_body_NoHash(c, r) == [c EXCEPT !.responder = Some(r)]

\* Created::tagged_body(responder)
Created_tagged_body(c, r) ==
    [c EXCEPT !.responder = Some(r), !.hash = Some(HashOf(r))]

\* format!(r#""{}""#, hash)
ETagValue(hash) == <<"\"">> \o to_string(hash) \o <<"\"">>

\* Responder::respond_to for Created<R>
respond_to(c) ==
    LET w == IF IsSome(c.responder)
             THEN WrappedRespond(c.responder[1])
             ELSE [ok |-> TRUE, err |-> 0, response |-> None]
    IN
    IF ~w.ok THEN [ok |-> FALSE, err |-> w.err, response |-> None]
    ELSE
    LET merged == IF IsSome(w.response)
                  THEN Merge(ResponseBuild, w.response[1])
                  ELSE ResponseBuild
        tagged == IF IsSome(c.hash)
                  THEN RawHeader(merged, "etag", ETagValue(c.hash[1]))
                  ELSE merged
    IN [ok |-> TRUE, err |-> 0,
        response |-> Some(RawHeader(SetStatus(tagged, CreatedStatus),
                                    "location", c.loc))]

PairVars == <<strong, usizeBits, pair, bridge, hyp, out, released, last>>

\* a handler calls Created::new(location)
call_new(location) ==
    /\ created.phase = "none"
    /\ created' = [Created_new(created, location)
                    EXCEPT !.phase = "built", !.given = location]
    /\ UNCHANGED <<PairVars, idents>>

\* the handler calls .body(r) on the Created
call_body(r) ==
    /\ created.phase = "built"
    /\ created.ncalls < MaxBodyCalls
    /\ created' = [Created_body(created, r) EXCEPT !.ncalls = @ + 1]
    /\ UNCHANGED <<PairVars, idents>>

\* the handler calls .tagged_body(r) on the Created
call_tagged_body(r) ==
    /\ created.phase = "built"
    /\ created.ncalls < MaxBodyCalls
    /\ created' = [Created_tagged_body(created, r)
                    EXCEPT !.ncalls = @ + 1, !.tagged = Some(r.h)]
    /\ UNCHANGED <<PairVars, idents>>

\* the Created is returned from the handler and respond_to runs on it
call_respond_to ==
    /\ created.phase = "built"
    /\ created' = [created EXCEPT !.phase = "responded",
                                  !.result = respond_to(created)]
    /\ UNCHANGED <<PairVars, idents>>

NextCreated ==
    \/ \E location \in LocationPool : call_new(location)
    \/ \E r \in ResponderPool : call_body(r)
    \/ \E r \in ResponderPool : call_tagged_body(r)
    \/ call_respond_to

SpecCreated == Init /\ [][NextCreated]_vars

(* --------------------------- codegen::Ident --------------------------- *)

\* the characters of the identifiers, with their byte values
IdentChars == {"r", "x"}
ByteOf(c) == IF c = "#" THEN 35 ELSE IF c = "r" THEN 114 ELSE 120

\* proc_macro2 identifiers: the symbol, written r#symbol when raw
Ident2Pool ==
    [raw : BOOLEAN, sym : SeqsUpTo(IdentChars, MaxNameLen) \ {<<>>}]

\* Ident2::to_string()
Ident2_to_string(i) == IF i.raw THEN <<"r", "#">> \o i.sym ELSE i.sym

\* str::starts_with("r#")
StartsWithRaw(str) == Len(str) >= 2 /\ str[1] = "r" /\ str[2] = "#"

\* Ident::is_raw
is_raw(i) == StartsWithRaw(Ident2_to_string(i))

\* syn::ext::IdentExt::unraw
unraw(i) ==
    IF StartsWithRaw(Ident2_to_string(i))
    THEN [raw |-> FALSE,
          sym |-> SubSeq(Ident2_to_string(i), 3, Len(Ident2_to_string(i)))]
    ELSE i

\* Ident::name
name(i) == Ident2_to_string(unraw(i))

\* Ord for str: the bytes compared in order, a proper prefix being Less
RECURSIVE StrCmp(_, _)
StrCmp(s, t) ==
    IF s = <<>> /\ t = <<>> THEN "Equal"
    ELSE IF s = <<>> THEN "Less"
    ELSE IF t = <<>> THEN "Greater"
    ELSE IF ByteOf(Head(s)) < ByteOf(Head(t)) THEN "Less"
    ELSE IF ByteOf(Head(s)) > ByteOf(Head(t)) THEN "Greater"
    ELSE StrCmp(Tail(s), Tail(t))

\* what a Hasher is fed by str::hash: the bytes, then 0xff
RECURSIVE HashStr(_)
HashStr(s) ==
    IF s = <<>> THEN 255 ELSE (31 * HashStr(Tail(s)) + ByteOf(Head(s))) % 256

\* Hash for Ident
Ident_hash(i) == HashStr(name(i))

\* PartialEq for Ident
Ident_eq(a, b) == name(a) = name(b)

\* PartialOrd for Ident
Ident_partial_cmp(a, b) == Some(StrCmp(name(a), name(b)))

\* Ord for Ident, derived: Ord for Ident2 on the one field, which compares
\* the to_string() of the two
Ident_cmp(a, b) == StrCmp(Ident2_to_string(a), Ident2_to_string(b))

\* Ident::from(a) and Ident::from(b), on two parsed identifiers
ident_from(a, b) ==
    /\ ~idents.made
    /\ idents' = [NoIdents EXCEPT !.made = TRUE, !.a = a, !.b = b]
    /\ UNCHANGED <<PairVars, created>>

\* a == b
call_eq ==
    /\ idents.made /\ IsNone(idents.eq)
    /\ idents' = [idents EXCEPT !.eq = Some(Ident_eq(idents.a, idents.b))]
    /\ UNCHANGED <<PairVars, created>>

\* a.hash(..) and b.hash(..), each into a new hasher
call_hash ==
    /\ idents.made /\ IsNone(idents.hashes)
    /\ idents' = [idents EXCEPT !.hashes =
                    Some(<<Ident_hash(idents.a), Ident_hash(idents.b)>>)]
    /\ UNCHANGED <<PairVars, created>>

\* a.partial_cmp(&b)
call_partial_cmp ==
    /\ idents.made /\ IsNone(idents.partial_cmp)
    /\ idents' = [idents EXCEPT !.partial_cmp =
                    Some(Ident_partial_cmp(idents.a, idents.b))]
    /\ UNCHANGED <<PairVars, created>>

\* a.cmp(&b)
call_cmp ==
    /\ idents.made /\ IsNone(idents.cmp)
    /\ idents' = [idents EXCEPT !.cmp = Some(Ident_cmp(idents.a, idents.b))]
    /\ UNCHANGED <<PairVars, created>>

NextIdent ==
    \/ \E a, b \in Ident2Pool : ident_from(a, b)
    \/ call_eq
    \/ call_hash
    \/ call_partial_cmp
    \/ call_cmp

SpecIdent == Init /\ [][NextIdent]_vars

(* --------------------------- specification ---------------------------- *)

\* the Responses the handlers produce where several pairs run side by side
SharedResponsePool ==
    {[status |-> 200, headers |-> <<>>, body |-> None],
     [status |-> 200, headers |-> <<>>,
      body |-> Some([kind |-> "Chunked",
                     reader |-> [src |-> <<"a", "b">>, failAt |-> -1],
                     size |-> 0, chunk_size |-> U64(0, 1)])]}

Next ==
    \E p \in Solo :
        \/ new(p)
        \/ \E fr \in FReqPool(p) : try_set_request(p, fr)
        \/ set_response(p)
        \/ \E res \in ResponsePool : set_response_resume(p, res)
        \/ set_response_cancel(p)
        \/ drop(p)
        \/ into_hyper_response(p)
        \/ \E ready \in BOOLEAN, ub \in UBItems : poll(p, ready, ub)
        \/ drop_payload(p)

Spec == Init /\ [][Next]_vars

\* several request tasks, each driving its own pair, on one Arc<Rocket>
NextShared ==
    \E p \in PairIds :
        \/ new(p)
        \/ \E fr \in FReqPool(p) : try_set_request(p, fr)
        \/ set_response(p)
        \/ \E res \in SharedResponsePool : set_response_resume(p, res)
        \/ set_response_cancel(p)
        \/ drop(p)
        \/ into_hyper_response(p)
        \/ \E ready \in BOOLEAN, ub \in UBItems : poll(p, ready, ub)
        \/ drop_payload(p)

SpecShared == Init /\ [][NextShared]_vars

(* ------------------------------ claims -------------------------------- *)

ContainerOps == {"try_set_request", "set_response", "into_hyper_response"}

\* the bytes of the data items of `items`, concatenated in order
RECURSIVE ConcatData(_)
ConcatData(items) ==
    IF items = <<>> THEN <<>>
    ELSE (IF Head(items).kind = "data" THEN Head(items).bytes ELSE <<>>)
            \o ConcatData(Tail(items))

\* the bytes a body source yields when it is read directly
DirectRead(s) ==
    SubSeq(s.src, 1, IF s.failAt >= 0 THEN s.failAt ELSE Len(s.src))

\* the indices of the items that terminate the sequence
Terminators(items) ==
    {i \in 1..Len(items) : items[i].kind \in {"end", "err"}}

FirstTerminator(items) ==
    CHOOSE i \in Terminators(items) : \A j \in Terminators(items) : i <= j

\* the number a string of decimal digits denotes
RECURSIVE DecValue(_)
DecValue(cs) ==
    IF cs = <<>> THEN 0
    ELSE 10 * DecValue(SubSeq(cs, 1, Len(cs) - 1))
            + ((CHOOSE d \in 1..10 : DigitChars[d] = cs[Len(cs)]) - 1)

\* C1: a second try_set_request with a construction function that succeeds,
\* on a pair that stores a Request and no Response, panics and leaves the
\* Request of the first call in place.
C1_SecondSetRequestPanics ==
    \A p \in PairIds :
        ( /\ last[p].op = "try_set_request"
          /\ IsSome(last[p].pre.request)
          /\ IsNone(last[p].pre.response)
          /\ last[p].fcalled => last[p].fret.ok )
        => /\ last[p].outcome = "panic"
           /\ pair[p].request = last[p].pre.request

\* C2: set_response called with no Request stored, or with a Response
\* already stored, panics before the handler is invoked and leaves the pair
\* as it was; called on a pair with a Request and no Response it invokes the
\* handler and, when it returns, stores exactly the Response the handler
\* produced, the Request and the stream untouched.
C2_SetResponseOnlyFromRequested ==
    \A p \in PairIds :
        last[p].op = "set_response" =>
            IF IsNone(last[p].pre.request) \/ IsSome(last[p].pre.response)
            THEN /\ last[p].outcome = "panic"
                 /\ ~last[p].fcalled
                 /\ pair[p] = last[p].pre
            ELSE /\ last[p].outcome \in {"pending", "ok", "cancelled"}
                 /\ last[p].fcalled
                 /\ pair[p].request = last[p].pre.request
                 /\ pair[p].stream = last[p].pre.stream
                 /\ IF last[p].outcome = "ok"
                    THEN pair[p].response = last[p].fres
                         /\ IsSome(last[p].fres)
                    ELSE IsNone(pair[p].response)

C2_Witness ==
    \E p \in PairIds :
        /\ last[p].op = "set_response"
        /\ last[p].outcome = "panic"
        /\ IsSome(last[p].pre.response)

\* C3: try_set_request on a pair that stores a Response panics before the
\* construction function is invoked and changes nothing; across every call
\* that starts and ends with a Response stored, the stored Request is the
\* same one, and a Response is never stored without a Request.
C3_NoSetRequestAfterResponse ==
    \A p \in PairIds :
        /\ (last[p].op = "try_set_request" /\ IsSome(last[p].pre.response))
            => /\ last[p].outcome = "panic"
               /\ ~last[p].fcalled
               /\ pair[p] = last[p].pre
        /\ (IsSome(last[p].pre.response) /\ IsSome(pair[p].response))
            => pair[p].request = last[p].pre.request
        /\ IsSome(pair[p].response) => IsSome(pair[p].request)

C3_Witness ==
    \E p \in PairIds :
        /\ last[p].op = "try_set_request"
        /\ last[p].outcome = "panic"
        /\ IsSome(pair[p].response)
        /\ IsSome(pair[p].request)

\* C4: into_hyper_response runs only on a pair its caller still owns, panics
\* when no Response is stored, and leaves the pair moved into the payload or
\* dropped; a pair that left its caller never returns to it and takes no
\* further try_set_request, set_response or into_hyper_response.
C4_FinalizeOnce ==
    [][\A p \in PairIds :
        /\ (last'[p] # last[p] /\ last'[p].op = "into_hyper_response")
            => /\ pair[p].owner = "caller"
               /\ IsNone(pair[p].response) =>
                    /\ last'[p].outcome = "panic"
                    /\ IsNone(hyp'[p])
                    /\ bridge'[p] = "none"
               /\ pair'[p].owner \in {"bridge", "dropped"}
        /\ pair[p].owner \in {"bridge", "dropped"}
            => /\ pair'[p].owner \in {"bridge", "dropped"}
               /\ last'[p] # last[p] => last'[p].op \notin ContainerOps
      ]_vars

C4_Witness ==
    \E p \in PairIds :
        /\ last[p].op = "into_hyper_response"
        /\ last[p].outcome = "panic"
        /\ IsSome(last[p].pre.request)
        /\ IsNone(last[p].pre.response)
        /\ pair[p].owner = "dropped"

\* C5: while a payload holds the pair and its stream was started with a
\* chunk size of at least 1, the bytes the polls returned, concatenated in
\* poll order, are a prefix of the bytes of the body source, and once a
\* poll returned the end of the body or an error they are exactly the bytes
\* the source yields when read directly.
C5_DrainYieldsBody ==
    \A p \in PairIds :
        (bridge[p] = "ReqRes" /\ IsSome(pair[p].stream)
            /\ (pair[p].stream[1].buf_size.hi > 0
                    \/ pair[p].stream[1].buf_size.lo >= 1))
        => LET s == pair[p].stream[1]
               got == ConcatData(out[p])
           IN /\ Len(got) <= Len(DirectRead(s))
              /\ got = SubSeq(DirectRead(s), 1, Len(got))
              /\ Terminators(out[p]) # {} => got = DirectRead(s)

C5_Witness ==
    \E p \in PairIds :
        /\ bridge[p] = "ReqRes"
        /\ IsSome(pair[p].stream)
        /\ pair[p].stream[1].src = <<"a", "b">>
        /\ pair[p].stream[1].failAt = -1
        /\ Len(out[p]) >= 3
        /\ out[p][1] = Data(<<"a">>)
        /\ out[p][2] = Data(<<"b">>)
        /\ out[p][3].kind = "end"

\* the releases the drop of a pair in state pr must make, in order
ExpectedRelease(pr) ==
    (IF IsSome(pr.stream) THEN <<"stream">> ELSE <<>>)
    \o (IF IsSome(pr.response) THEN <<"response">> ELSE <<>>)
    \o (IF IsSome(pr.request) THEN <<"request">> ELSE <<>>)
    \o (IF IsSome(pr.rocket) THEN <<"rocket">> ELSE <<>>)

\* C6: the step that drops a pair, in whatever phase, releases exactly the
\* values the pair holds at that moment, the stream first, then the
\* Response, then the Request, then the Arc<Rocket>, and leaves none held.
C6_DropOrder ==
    [][\A p \in PairIds :
        (pair[p].owner # "dropped" /\ pair'[p].owner = "dropped")
        => /\ IsSome(last'[p].atDrop)
           /\ last'[p].atDrop[1].request = pair[p].request
           /\ last'[p].atDrop[1].rocket = pair[p].rocket
           /\ IsSome(pair[p].stream) =>
                last'[p].atDrop[1].stream = pair[p].stream
           /\ IsSome(last'[p].atDrop[1].response) = IsSome(pair[p].response)
           /\ IsSome(pair[p].rocket)
           /\ released'[p] = released[p] \o ExpectedRelease(last'[p].atDrop[1])
           /\ IsNone(pair'[p].stream) /\ IsNone(pair'[p].response)
           /\ IsNone(pair'[p].request) /\ IsNone(pair'[p].rocket)
      ]_vars

C6_Witness ==
    \E p \in PairIds :
        /\ pair[p].owner = "dropped"
        /\ last[p].op = "drop_payload"
        /\ Len(out[p]) = 1
        /\ out[p][1].kind = "data"
        /\ released[p] = <<"stream", "response", "request", "rocket">>

\* C7: a payload of the ReqRes variant always holds a pair whose stream is
\* set, and a ReqRes payload comes into being only in a step of
\* into_hyper_response, which sets that stream in the same step.
C7_HoldsHasStream ==
    [][\A p \in PairIds :
        bridge'[p] = "ReqRes"
        => /\ IsSome(pair'[p].stream)
           /\ pair'[p].owner = "bridge"
           /\ bridge[p] # "ReqRes" =>
                /\ last'[p].op = "into_hyper_response"
                /\ IsNone(pair[p].stream)
      ]_vars

C7_Witness ==
    \E p \in PairIds :
        /\ bridge[p] = "ReqRes"
        /\ last[p].op = "poll_data"
        /\ IsSome(pair[p].stream)

\* the Content-Length values a hyper response carries
ContentLengths(h) ==
    {h.headers[i].value :
        i \in {j \in 1..Len(h.headers) : h.headers[j].name = "content-length"}}

\* C8: the hyper response into_hyper_response returns for a Response whose
\* body is Body::Sized(_, S) carries a Content-Length header whose value is
\* the decimal numeral of S.
C8_SizedContentLength ==
    \A p \in PairIds :
        ( /\ last[p].op = "into_hyper_response"
          /\ last[p].outcome = "ok"
          /\ IsSome(last[p].pre.response[1].body)
          /\ last[p].pre.response[1].body[1].kind = "Sized" )
        => /\ IsSome(hyp[p])
           /\ \E v \in ContentLengths(hyp[p][1]) :
                /\ DecValue(v) = last[p].pre.response[1].body[1].size
                /\ Len(v) = 1 \/ v[1] # "0"

C8_Witness ==
    \E p \in PairIds :
        /\ last[p].op = "into_hyper_response"
        /\ last[p].outcome = "ok"
        /\ IsSome(last[p].pre.response[1].body)
        /\ last[p].pre.response[1].body[1].kind = "Sized"
        /\ last[p].pre.response[1].body[1].size = 120
        /\ <<"1", "2", "0">> \in ContentLengths(hyp[p][1])

\* C9: the hyper response into_hyper_response returns for a Response whose
\* body is Body::Chunked carries no Content-Length header.
C9_ChunkedNoContentLength ==
    \A p \in PairIds :
        ( /\ last[p].op = "into_hyper_response"
          /\ last[p].outcome = "ok"
          /\ IsSome(last[p].pre.response[1].body)
          /\ last[p].pre.response[1].body[1].kind = "Chunked" )
        => ContentLengths(hyp[p][1]) = {}

\* C10: when the body source fails after k bytes, the first poll that
\* terminates the sequence returns an error, the polls before it returned
\* exactly those k bytes, and no poll after it returns data; after the end
\* of a body that did not fail no poll returns data either.
C10_ErrorTerminates ==
    \A p \in PairIds :
        (bridge[p] = "ReqRes" /\ IsSome(pair[p].stream)
            /\ Terminators(out[p]) # {}
            /\ (pair[p].stream[1].buf_size.hi > 0
                    \/ pair[p].stream[1].buf_size.lo >= 1))
        => LET s == pair[p].stream[1]
               t == FirstTerminator(out[p])
           IN /\ out[p][t].kind = "err" <=> s.failAt >= 0
              /\ s.failAt >= 0 =>
                    ConcatData(SubSeq(out[p], 1, t - 1))
                        = SubSeq(s.src, 1, s.failAt)
              /\ \A j \in (t + 1)..Len(out[p]) : out[p][j].kind # "data"

C10_Witness ==
    \E p \in PairIds :
        /\ bridge[p] = "ReqRes"
        /\ IsSome(pair[p].stream)
        /\ pair[p].stream[1].src = <<"a", "b">>
        /\ pair[p].stream[1].failAt = 1
        /\ Len(out[p]) >= 3
        /\ out[p][1] = Data(<<"a">>)
        /\ out[p][2].kind = "err"
        /\ out[p][3].kind # "data"

\* C11: when the construction function returns a failure, try_set_request
\* returns that same failure and leaves the pair exactly as it was: no
\* Request is stored or released, and a pair that had no Request still has
\* none, so set_response on it is still refused.
C11_FailedConstructionNoChange ==
    \A p \in PairIds :
        (last[p].op = "try_set_request" /\ last[p].fcalled
            /\ ~last[p].fret.ok)
        => /\ last[p].outcome = "err"
           /\ last[p].ret = [ok |-> FALSE, err |-> last[p].fret.err]
           /\ pair[p] = last[p].pre
           /\ IsNone(last[p].pre.request) =>
                (IsNone(pair[p].request) /\ ~SetResponseAllowed(pair[p]))
           /\ Constructed(p) <= 1 => released[p] = <<>>

C11_Witness ==
    \E p \in PairIds :
        /\ last[p].op = "try_set_request"
        /\ last[p].outcome = "err"
        /\ last[p].ret = [ok |-> FALSE, err |-> "e2"]
        /\ IsNone(pair[p].request)
        /\ pair[p].owner = "caller"

\* the data items of `items`, in order
DataItems(items) == SelectSeq(items, LAMBDA it : it.kind = "data")

\* ceil(n / c) for c >= 1
CeilDiv(n, c) == (n + c - 1) \div c

\* C12: for a body of N bytes that reads to its end, polled through a
\* stream of chunk size C >= 1, the polls never return more than ceil(N / C)
\* chunks, every chunk but the ceil(N / C)-th has C bytes, that one has
\* N mod C bytes (C when C divides N), and when the end of the body is
\* returned exactly ceil(N / C) chunks came before it, none for N = 0.
C12_ChunkCount ==
    \A p \in PairIds :
        (bridge[p] = "ReqRes" /\ IsSome(pair[p].stream)
            /\ pair[p].stream[1].failAt = -1
            /\ pair[p].stream[1].buf_size.hi = 0
            /\ pair[p].stream[1].buf_size.lo >= 1)
        => LET s == pair[p].stream[1]
               N == Len(s.src)
               C == s.buf_size.lo
               chunks == DataItems(out[p])
               K == Len(chunks)
           IN /\ K <= CeilDiv(N, C)
              /\ \A i \in 1..K :
                    Len(chunks[i].bytes) =
                        IF i < CeilDiv(N, C) THEN C
                        ELSE IF N % C = 0 THEN C ELSE N % C
              /\ Terminators(out[p]) # {} =>
                    /\ K = CeilDiv(N, C)
                    /\ K = Len(DataItems(SubSeq(out[p], 1,
                                            FirstTerminator(out[p]) - 1)))
                    /\ out[p][FirstTerminator(out[p])].kind = "end"
              /\ N = 0 => K = 0

C12_Witness ==
    \E p \in PairIds :
        /\ bridge[p] = "ReqRes"
        /\ IsSome(pair[p].stream)
        /\ pair[p].stream[1].failAt = -1
        /\ pair[p].stream[1].buf_size = U64(0, 1)
        /\ Len(pair[p].stream[1].src) = 2
        /\ Len(DataItems(out[p])) = 2
        /\ out[p][Len(out[p])].kind = "end"

\* C13: when the declared chunk size of the body does not fit the build's
\* usize, into_hyper_response returns the failure as an Err value, nothing
\* having been polled, and the pair is dropped in the order stream,
\* response, request, rocket.
C13_OverflowIsFailureValue ==
    \A p \in PairIds :
        ( /\ last[p].op = "into_hyper_response"
          /\ IsSome(last[p].pre.response)
          /\ IsSome(last[p].pre.response[1].body)
          /\ last[p].pre.response[1].body[1].kind = "Chunked"
          /\ last[p].pre.response[1].body[1].chunk_size.hi > 0
          /\ usizeBits = 32 )
        => /\ last[p].outcome = "err"
           /\ out[p] = <<>>
           /\ pair[p].owner = "dropped"

\* C14: into_hyper_response, when it returns a response for a Response
\* without a body, returns the Empty payload, and every poll of an Empty
\* payload returns the end of the body: no data, no error, not Pending.
C14_EmptyBridge ==
    \A p \in PairIds :
        /\ ( /\ last[p].op = "into_hyper_response"
             /\ last[p].outcome = "ok"
             /\ IsNone(last[p].pre.response[1].body) )
            => (bridge[p] = "Empty" /\ out[p] = <<>>)
        /\ bridge[p] = "Empty"
            => \A i \in 1..Len(out[p]) : out[p][i] = EndItem

C14_Witness ==
    \E p \in PairIds :
        /\ bridge[p] = "Empty"
        /\ last[p].op = "poll_data"
        /\ Len(out[p]) >= 2

\* C15, as stated: whatever the kind of the body, the stream
\* into_hyper_response stores has the default chunk size of 4096 bytes.
C15_AlwaysDefaultChunk ==
    \A p \in PairIds :
        ( /\ last[p].op = "into_hyper_response"
          /\ last[p].outcome = "ok"
          /\ IsSome(last[p].pre.response[1].body) )
        => /\ IsSome(pair[p].stream)
           /\ pair[p].stream[1].buf_size = U64(0, 4096)

\* C15, amended: the stream into_hyper_response stores has the chunk size
\* 4096 for a Body::Sized, whatever its declared size, and the chunk size
\* the body declares for a Body::Chunked.
C15_ChunkSizeByKind ==
    \A p \in PairIds :
        ( /\ last[p].op = "into_hyper_response"
          /\ last[p].outcome = "ok"
          /\ IsSome(last[p].pre.response[1].body) )
        => LET body == last[p].pre.response[1].body[1]
           IN /\ IsSome(pair[p].stream)
              /\ body.kind = "Sized" =>
                    pair[p].stream[1].buf_size = U64(0, 4096)
              /\ body.kind = "Chunked" =>
                    pair[p].stream[1].buf_size = body.chunk_size

C15_Witness ==
    \E p \in PairIds :
        /\ last[p].op = "into_hyper_response"
        /\ last[p].outcome = "ok"
        /\ IsSome(last[p].pre.response[1].body)
        /\ last[p].pre.response[1].body[1].kind = "Chunked"
        /\ last[p].pre.response[1].body[1].chunk_size = U64(0, 2)
        /\ pair[p].stream[1].buf_size = U64(0, 2)

\* C16: while set_response is suspended in the handler, and after its
\* future is dropped there, the pair stores its Request and neither a
\* Response nor a stream; the drop of the pair that follows a cancellation
\* releases the Request and then the Arc<Rocket>, and nothing else.
C16_CancelLeavesRequested ==
    [][\A p \in PairIds :
        /\ ( /\ last'[p].op = "set_response"
             /\ last'[p].outcome \in {"pending", "cancelled"} )
            => /\ IsSome(pair'[p].request)
               /\ IsNone(pair'[p].response)
               /\ IsNone(pair'[p].stream)
               /\ pair'[p].owner = "caller"
               /\ pair'[p].request = last'[p].pre.request
               /\ last'[p].outcome = "cancelled" => ~pair'[p].borrowed
        /\ ( /\ last[p].op = "set_response"
             /\ last[p].outcome = "cancelled"
             /\ pair[p].owner # "dropped"
             /\ pair'[p].owner = "dropped" )
            => released'[p] = released[p] \o <<"request", "rocket">>
      ]_vars

C16_Witness ==
    \E p \in PairIds :
        /\ last[p].op = "set_response"
        /\ last[p].outcome = "cancelled"
        /\ last[p].fcalled
        /\ IsSome(pair[p].request)
        /\ IsNone(pair[p].response)

\* C18: in every state reached by whatever calls, the fatal ones included,
\* a pair stores a stream only with a Response and a Response only with a
\* Request, and no step other than the drop of the pair turns a stored
\* Request or a stored Response back into None.
C18_ConstructionOrder ==
    [][\A p \in PairIds :
        /\ IsSome(pair'[p].stream) => IsSome(pair'[p].response)
        /\ IsSome(pair'[p].response) => IsSome(pair'[p].request)
        /\ (IsSome(pair[p].request) /\ pair'[p].owner # "dropped")
            => IsSome(pair'[p].request)
        /\ (IsSome(pair[p].response) /\ pair'[p].owner # "dropped")
            => IsSome(pair'[p].response)
        /\ pair'[p].owner = "dropped" =>
            (IsNone(pair'[p].request) /\ IsNone(pair'[p].response)
                /\ IsNone(pair'[p].stream))
      ]_vars

C18_Witness ==
    \E p \in PairIds :
        /\ last[p].op = "set_response"
        /\ last[p].outcome = "panic"
        /\ Constructed(p) = 2
        /\ IsSome(pair[p].request)
        /\ IsSome(pair[p].response)
        /\ IsNone(pair[p].stream)

\* C19: as long as a ReqRes payload exists, the pair in it stores its
\* Request, its Response, its stream and its Arc<Rocket>, polls (after the
\* end of the body or an error too) release nothing and leave Request and
\* Response as they are, and the step that ends the payload is its drop,
\* which releases stream, Response, Request and Arc<Rocket> together.
C19_StreamingKeepsAlive ==
    [][\A p \in PairIds :
        /\ bridge'[p] = "ReqRes"
            => /\ IsSome(pair'[p].request) /\ IsSome(pair'[p].response)
               /\ IsSome(pair'[p].stream) /\ IsSome(pair'[p].rocket)
        /\ (bridge[p] = "ReqRes" /\ bridge'[p] = "ReqRes")
            => /\ pair'[p].request = pair[p].request
               /\ pair'[p].response = pair[p].response
               /\ released'[p] = released[p]
        /\ (bridge[p] = "ReqRes" /\ bridge'[p] # "ReqRes")
            => /\ bridge'[p] = "dropped"
               /\ pair'[p].owner = "dropped"
               /\ released'[p] = released[p]
                    \o <<"stream", "response", "request", "rocket">>
      ]_vars

C19_Witness ==
    \E p \in PairIds :
        /\ bridge[p] = "ReqRes"
        /\ IsSome(pair[p].stream)
        /\ IsSome(pair[p].request)
        /\ \E i \in 1..Len(out[p]) :
            i < Len(out[p]) /\ out[p][i].kind \in {"end", "err"}

\* all the model holds about the pair p
PairState(p) == <<pair[p], bridge[p], hyp[p], out[p], released[p], last[p]>>

\* the pairs that hold a handle to the Rocket
Holders == {p \in PairIds : IsSome(pair[p].rocket)}

\* C20: in every interleaving of the calls on several pairs made from one
\* Arc<Rocket>, a step changes the state of at most one pair, the one the
\* call was made on; the strong count is the server's handle plus one per
\* pair that was not dropped, so the Rocket is alive while any such pair
\* exists, and the drop of a pair lowers the count by exactly one.
C20_PairsIndependent ==
    [][/\ \A p, q \in PairIds :
            (p # q /\ PairState(q)' # PairState(q))
                => PairState(p)' = PairState(p)
       /\ strong' = 1 + Cardinality(Holders')
       /\ Holders' # {} => strong' >= 1
       /\ \A p \in PairIds :
            (pair[p].owner # "dropped" /\ pair'[p].owner = "dropped")
                => /\ strong' = strong - 1
                   /\ Holders' = Holders \ {p}
      ]_vars

C20_Witness ==
    /\ pair["p1"].owner = "dropped"
    /\ pair["p2"].owner = "bridge"
    /\ Len(out["p2"]) >= 1
    /\ strong = 2

\* the values of the headers named hname in the response resp
HeaderValues(resp, hname) ==
    {h.value : h \in {g \in resp.headers : g.name = hname}}

\* v is the decimal numeral of n between double quotes
IsQuotedNumeral(v, n) ==
    /\ Len(v) >= 3
    /\ v[1] = "\""
    /\ v[Len(v)] = "\""
    /\ DecValue(SubSeq(v, 2, Len(v) - 1)) = n

\* C17: respond_to on a Created whose wrapped responder fails returns that
\* failure and no response; otherwise the response has status 201 and the
\* one Location header given to Created::new, whatever the wrapped
\* responder set, and its ETag is the quoted hash of the responder of the
\* last tagged_body call when there was such a call, and only what the
\* wrapped responder set itself when there was none.
C17_CreatedResponse ==
    created.phase = "responded" =>
        LET w == created.responder
            res == created.result
        IN
        IF IsSome(w) /\ ~w[1].ok
        THEN /\ ~res.ok
             /\ res.err = w[1].status
             /\ IsNone(res.response)
        ELSE /\ res.ok
             /\ IsSome(res.response)
             /\ res.response[1].status = 201
             /\ HeaderValues(res.response[1], "location") = {created.given}
             /\ IF IsSome(created.tagged)
                THEN /\ HeaderValues(res.response[1], "etag") # {}
                     /\ \A v \in HeaderValues(res.response[1], "etag") :
                            IsQuotedNumeral(v, created.tagged[1])
                ELSE HeaderValues(res.response[1], "etag") =
                        IF IsSome(w)
                        THEN {h.value : h \in {g \in w[1].headers :
                                                g.name = "etag"}}
                        ELSE {}

C17_Witness ==
    /\ created.phase = "responded"
    /\ created.ncalls = 2
    /\ IsSome(created.tagged)
    /\ created.tagged[1] = 130
    /\ created.responder[1].h = 7
    /\ created.responder[1].ok
    /\ created.responder[1].status = 404
    /\ created.responder[1].headers = WrappedHeaders
    /\ created.result.ok
    /\ <<"\"", "1", "3", "0", "\"">>
            \in HeaderValues(created.result.response[1], "etag")

\* bytes of the source of the stream s not yet read, up to its end or to
\* the point where it fails
Unread(s) == (IF s.failAt >= 0 THEN s.failAt ELSE Len(s.src)) - s.pos

\* the payload of p is a bridge over a stream that is not at its end
Streaming(p) ==
    /\ bridge[p] = "ReqRes"
    /\ IsSome(pair[p].stream)
    /\ pair[p].stream[1].state = "open"
    /\ Unread(pair[p].stream[1]) > 0

\* C21: while the stream of a bridge is not at its end, a poll made with
\* no bytes ready returns Pending and leaves the stream as it was, and the
\* poll after it made with bytes ready returns what it would have returned
\* without the suspended poll; a poll step that appends Pending changes
\* nothing of the pair, and the data a step appends right after a Pending
\* starts at the first unread byte and moves the position past it.
C21_PendingSuspends ==
    [][\A p \in PairIds : Streaming(p) =>
        LET st == pair[p].stream
            s == st[1]
            n == Len(out[p])
        IN
        /\ \A ub \in UBItems :
             LET r == poll_data(bridge[p], st, FALSE, ub) IN
             /\ r.item = PendingItem
             /\ r.stream = st
             /\ poll_data(bridge[p], r.stream, TRUE, ub)
                    = poll_data(bridge[p], st, TRUE, ub)
        /\ Len(out'[p]) = n + 1 =>
             LET it == out'[p][n + 1] IN
             /\ it.kind = "pending" =>
                    /\ pair'[p] = pair[p]
                    /\ released'[p] = released[p]
                    /\ bridge'[p] = bridge[p]
             /\ (n > 0 /\ out[p][n].kind = "pending" /\ it.kind = "data") =>
                    /\ Len(it.bytes) > 0
                    /\ it.bytes = SubSeq(s.src, s.pos + 1,
                                         s.pos + Len(it.bytes))
                    /\ pair'[p].stream[1].pos = s.pos + Len(it.bytes)
      ]_vars

C21_Witness ==
    \E p \in PairIds :
        /\ Len(out[p]) = 3
        /\ out[p][1].kind = "data"
        /\ out[p][2].kind = "pending"
        /\ out[p][3].kind = "data"
        /\ IsSome(pair[p].stream)
        /\ out[p][1].bytes \o out[p][3].bytes = pair[p].stream[1].src
        /\ Len(pair[p].stream[1].src) = 2

\* C22: the step of into_hyper_response on a pair whose Response has no
\* body never makes a ReqRes payload: the pair is dropped in that step with
\* its stream unset, releasing the Response, the Request and the
\* Arc<Rocket> in that order, nothing having been polled yet, and the hyper
\* response it returns carries a Content-Length header of value 0; and
\* whenever the payload is Empty the pair is dropped and holds nothing.
C22_NoBodyDropsPair ==
    [][\A p \in PairIds :
        /\ ( /\ pair[p].owner = "caller"
             /\ last'[p].op = "into_hyper_response"
             /\ IsSome(pair[p].response)
             /\ IsNone(pair[p].response[1].body) )
            => /\ bridge'[p] # "ReqRes"
               /\ pair'[p].owner = "dropped"
               /\ IsNone(pair[p].stream)
               /\ IsSome(last'[p].atDrop)
               /\ IsNone(last'[p].atDrop[1].stream)
               /\ released'[p] =
                    released[p] \o <<"response", "request", "rocket">>
               /\ out'[p] = <<>>
               /\ last'[p].outcome = "ok" =>
                    /\ bridge'[p] = "Empty"
                    /\ IsSome(hyp'[p])
                    /\ <<"0">> \in ContentLengths(hyp'[p][1])
        /\ bridge'[p] = "Empty"
            => /\ pair'[p].owner = "dropped"
               /\ IsNone(pair'[p].stream) /\ IsNone(pair'[p].response)
               /\ IsNone(pair'[p].request) /\ IsNone(pair'[p].rocket)
               /\ bridge[p] = "Empty" => released'[p] = released[p]
      ]_vars

C22_Witness ==
    \E p \in PairIds :
        /\ bridge[p] = "Empty"
        /\ last[p].op = "into_hyper_response"
        /\ last[p].outcome = "ok"
        /\ IsNone(last[p].pre.response[1].body)
        /\ last[p].pre.response[1].headers = <<HCustom, HLength>>
        /\ released[p] = <<"response", "request", "rocket">>
        /\ pair[p].owner = "dropped"
        /\ out[p] = <<>>
        /\ <<"0">> \in ContentLengths(hyp[p][1])

\* C23, as stated: for two Idents a and b, a == b exactly when their names
\* without the r# prefix are equal, a == b gives equal hashes, and a == b
\* exactly when partial_cmp(a, b) and cmp(a, b) both report Equal.
C23_NameDeterminesAll ==
    ( /\ IsSome(idents.eq) /\ IsSome(idents.hashes)
      /\ IsSome(idents.partial_cmp) /\ IsSome(idents.cmp) )
    => /\ idents.eq[1] =
            (unraw(idents.a).sym = unraw(idents.b).sym)
       /\ idents.eq[1] => idents.hashes[1][1] = idents.hashes[1][2]
       /\ idents.eq[1] =
            ( /\ idents.partial_cmp[1] = Some("Equal")
              /\ idents.cmp[1] = "Equal" )

====
